---- MODULE Spec2Model ----
(***************************************************************************)
(* State-machine model of the VulkanEngine renderer: main() drives         *)
(* VulkanEngine::init, the render loop (drawFrame) and cleanup on one host  *)
(* thread, while the GPU queue and the presentation engine run              *)
(* asynchronously and are coupled to the host through fences and           *)
(* semaphores.                                                              *)
(***************************************************************************)
EXTENDS FiniteSets, Integers, Sequences, TLC

\* ------------------------------------------------------------------ sizes
MAX_FRAMES_IN_FLIGHT == 2

\* largest number of images a swapchain hands back
MaxImages == 3
\* largest number of shapes in the model file
MaxMeshes == 1
\* longest list of surface formats / present modes the surface reports
MaxList == 2
\* width in bits of the unsigned integers of the negotiation (uint32_t in the
\* source; extents and framebuffer sizes stay far below the sentinel)
WordBits == 4
\* longest list of physical devices the instance enumerates
MaxDevices == 3
\* drawFrame calls explored before the window is closed
MaxFrames == 3
\* failing results of unchecked calls explored in one run
MaxFaults == 1

VARIABLES
    pc,                         \* position of the host thread in main()
    exitCode,                   \* value returned by main(), -1 while running
    windowAlive,                \* the native window exists
    frameBufferResized,         \* Window::frameBufferResized_
    log,                        \* history of create / destroy / waitIdle calls
    swapChainImages,            \* image index -> owner of the image
    swapChainImageViews,        \* image index -> view handle
    renderFinishedSemaphores,   \* image index -> semaphore state
    imageAvailableSemaphores,   \* slot -> semaphore state
    inFlightFences,             \* slot -> fence state
    commandBuffers,             \* slot -> [state, image]
    currentFrame,               \* currentFrame_
    imageIndex,                 \* drawFrame's local imageIndex, -1 when unset
    meshes,                     \* number of entries of meshes_
    immediate,                  \* immediateSubmit's command buffer: [state, cmds]
    textureLayout,              \* image layout of textureImage_.image
    swapChainSupport,           \* createSwapChain's local swapChainSupport
    createInfo,                 \* createSwapChain's local createInfo
    frameBufferSize,            \* what Window::getFrameBufferSize reports
    devices,                    \* pickPhysicalDevice's local devices
    physicalDevice,             \* physicalDevice_: position in devices, 0 = null
    pendingSubs,                \* graphics-queue submissions not yet executed
    presentQueue,               \* present requests not yet executed
    rendered,                   \* image index -> rendering into it completed
    executing,                  \* leading submissions whose commands have begun
    framesDone,                 \* drawFrame calls that returned
    stepLog,                    \* steps performed by the current drawFrame call
    faults,                     \* failing results of unchecked calls so far
    lastError                   \* first failing call and its result

hostVars == <<pc, exitCode, windowAlive, frameBufferResized, log>>
swapVars == <<swapChainImages, swapChainImageViews>>
syncVars == <<renderFinishedSemaphores, imageAvailableSemaphores, inFlightFences>>
frameVars == <<commandBuffers, currentFrame, imageIndex, framesDone, stepLog>>
gpuVars == <<pendingSubs, presentQueue, rendered, executing>>
errVars == <<faults, lastError>>
uploadVars == <<immediate, textureLayout>>
negotiationVars == <<swapChainSupport, createInfo, frameBufferSize>>
deviceVars == <<devices, physicalDevice>>
\* what only init writes
initVars == <<meshes, uploadVars, negotiationVars, deviceVars>>
vars == <<hostVars, swapVars, syncVars, frameVars, gpuVars, errVars, initVars>>

\* ---------------------------------------------------------------- helpers
Slots == 0 .. (MAX_FRAMES_IN_FLIGHT - 1)

Size(f) == Cardinality(DOMAIN f)

EmptyVec == [i \in {} |-> 0]

Vec(n, v) == [i \in 0 .. (n - 1) |-> v]

Obj(kind) == <<kind, 0>>

Create(o) == <<"create", o>>

Destroy(o) == <<"destroy", o>>

WaitIdleEv == <<"waitIdle", Obj("device")>>

RECURSIVE Flatten(_)
Flatten(ss) == IF ss = <<>> THEN <<>> ELSE Head(ss) \o Flatten(Tail(ss))

NoError == [call |-> "none", result |-> "VK_SUCCESS"]

Max(a, b) == IF a >= b THEN a ELSE b

\* no transient command buffer is allocated
NoCommandBuffer == [state |-> "none", cmds |-> <<>>]

\* createSwapChain has not queried the surface / not filled createInfo
NoSupport == [queried |-> FALSE]

NoCreateInfo == [filled |-> FALSE]

\* pickPhysicalDevice has not enumerated the devices
NoDevices == [enumerated |-> FALSE]

\* object o exists just before log entry i
AliveBefore(o, i) ==
    \E c \in 1 .. (i - 1) :
        /\ log[c] = Create(o)
        /\ \A d \in (c + 1) .. (i - 1) : log[d] # Destroy(o)

TypeOK ==
    /\ pc \in STRING
    /\ exitCode \in {-1, 0, 1}
    /\ windowAlive \in BOOLEAN
    /\ frameBufferResized \in BOOLEAN
    /\ currentFrame \in Nat
    /\ imageIndex \in -1 .. (MaxImages - 1)
    /\ meshes \in 0 .. MaxMeshes
    /\ framesDone \in 0 .. MaxFrames
    /\ faults \in 0 .. MaxFaults
    /\ immediate.state \in {"none", "pending", "completed", "freed"}
    /\ textureLayout \in {"none", "undefined", "transferDst", "shaderRead", "invalid"}

\* ------------------------------------------------------------------- Init
\* State at entry of main(): nothing constructed, members default-initialised.
Init ==
    /\ pc = "main"
    /\ exitCode = -1
    /\ windowAlive = FALSE
    /\ frameBufferResized = FALSE
    /\ log = <<>>
    /\ swapChainImages = EmptyVec
    /\ swapChainImageViews = EmptyVec
    /\ renderFinishedSemaphores = EmptyVec
    /\ imageAvailableSemaphores = EmptyVec
    /\ inFlightFences = EmptyVec
    /\ commandBuffers = EmptyVec
    /\ currentFrame = 0
    /\ imageIndex = -1
    /\ meshes = 0
    /\ immediate = NoCommandBuffer
    /\ textureLayout = "none"
    /\ swapChainSupport = NoSupport
    /\ createInfo = NoCreateInfo
    /\ frameBufferSize = [width |-> 0, height |-> 0]
    /\ devices = NoDevices
    /\ physicalDevice = 0
    /\ pendingSubs = <<>>
    /\ presentQueue = <<>>
    /\ rendered = EmptyVec
    /\ executing = 0
    /\ framesDone = 0
    /\ stepLog = <<>>
    /\ faults = 0
    /\ lastError = NoError

\* --------------------------------------------------------- exception path
Throw_continue(call, result) ==
    /\ windowAlive' = windowAlive
    /\ exitCode' = exitCode
    /\ pc' = "loop"
    /\ lastError' = IF lastError = NoError
                    THEN [call |-> call, result |-> result]
                    ELSE lastError

\* An exception leaves the try block of main(): unwinding destroys the locals
\* of the block, engine (no destructor) and window (~Window calls
\* glfwDestroyWindow); the handler logs the message and main returns 1.
Throw(call, result) ==
    /\ windowAlive' = FALSE
    /\ exitCode' = 1
    /\ pc' = "exited"
    /\ lastError' = IF lastError = NoError
                    THEN [call |-> call, result |-> result]
                    ELSE lastError

\* Window window(800, 600, ...): glfwCreateWindow succeeds, or the constructor
\* throws, no Window object exists and main returns 1.
WindowCtor ==
    /\ pc = "main"
    /\ \/ /\ windowAlive' = TRUE
          /\ pc' = "checkValidationLayerSupport"
          /\ UNCHANGED <<lastError, exitCode>>
       \/ Throw("Window", "exception")
    /\ UNCHANGED <<frameBufferResized, log, swapVars, syncVars, frameVars,
                   gpuVars, faults, initVars>>

\* ------------------------------------------------------------ initVulkan
InitOrder_allocatorLate ==
    << "checkValidationLayerSupport", "createInstance", "createSurface",
       "pickPhysicalDevice", "createLogicalDevice",
       "createSwapChain", "createImageViews", "createDepthResources",
       "createAllocator", "initSyncObjects", "loadImages",
       "createTextureSampler", "initDescriptors", "createGraphicsPipeline",
       "loadMeshes" >>

\* the calls of init() and initVulkan(), in program order
InitOrder ==
    << "checkValidationLayerSupport", "createInstance", "createSurface",
       "pickPhysicalDevice", "createLogicalDevice", "createAllocator",
       "createSwapChain", "createImageViews", "createDepthResources",
       "initSyncObjects", "loadImages", "createTextureSampler",
       "initDescriptors", "createGraphicsPipeline", "loadMeshes" >>

InitFns == {InitOrder[i] : i \in DOMAIN InitOrder}

IndexOf(fn) == CHOOSE i \in DOMAIN InitOrder : InitOrder[i] = fn

\* where control goes when init call fn returns
InitNext(fn) ==
    IF IndexOf(fn) = Len(InitOrder) THEN "loop" ELSE InitOrder[IndexOf(fn) + 1]

\* number of render-finished semaphores initSyncObjects creates
RenderFinishedCount_perFrame == MAX_FRAMES_IN_FLIGHT

RenderFinishedCount == Size(swapChainImages)

\* the commands the lambda of loadImages records, in program order
UploadCommands ==
    << "barrierToTransfer", "copyBufferToImage", "barrierToShaderRead" >>

\* immediateSubmit up to the submission: allocate the command buffer, begin
\* it (one-time-submit), run function(cmd), end it, submit it
ImmediateSubmitEvents(cmds) ==
    << Create(Obj("immediateCmd")), <<"begin", Obj("immediateCmd")>> >>
    \o [i \in DOMAIN cmds |-> <<"cmd", Obj(cmds[i])>>]
    \o << <<"end", Obj("immediateCmd")>>, <<"submit", Obj("immediateCmd")>> >>

\* immediateSubmit after the submission: graphicsQueue_.waitIdle(), then free
ImmediateSubmitTail ==
    << <<"waitIdle", Obj("graphicsQueue")>>, Destroy(Obj("immediateCmd")) >>

LoadImagesHead_earlyRelease ==
    << Create(Obj("stagingBuffer")), <<"memcpy", Obj("stagingBuffer")>>,
       Create(Obj("textureImage")), Destroy(Obj("stagingBuffer")) >>
    \o ImmediateSubmitEvents(UploadCommands)

\* loadImages up to the submission inside immediateSubmit: staging buffer,
\* memcpy of the pixels into it, texture image, the recorded upload
LoadImagesHead ==
    << Create(Obj("stagingBuffer")), <<"memcpy", Obj("stagingBuffer")>>,
       Create(Obj("textureImage")) >>
    \o ImmediateSubmitEvents(UploadCommands)

\* loadImages after immediateSubmit has returned
LoadImagesTail ==
    << Destroy(Obj("stagingBuffer")), Create(Obj("textureImageView")) >>

\* VmaAllocationCreateInfo::usage each allocation is made with
MemoryUsage(kind) ==
    CASE kind \in {"vertexBuffer", "indexBuffer"} -> "CPU_TO_GPU"
      [] kind = "stagingBuffer" -> "CPU_TO_GPU"
      [] kind \in {"depthImage", "textureImage"} -> "GPU_ONLY"

\* The objects each init call creates and destroys, in program order;
\* m is the number of shapes loadMeshes finds in the model file.
InitEvents(fn, m) ==
    CASE fn = "checkValidationLayerSupport" -> <<>>
      [] fn = "createInstance" -> << Create(Obj("instance")) >>
      [] fn = "createSurface" -> << Create(Obj("surface")) >>
      [] fn = "pickPhysicalDevice" -> <<>>
      [] fn = "createLogicalDevice" -> << Create(Obj("device")) >>
      [] fn = "createAllocator" -> << Create(Obj("allocator")) >>
      [] fn = "createSwapChain" -> << Create(Obj("swapchain")) >>
      [] fn = "createImageViews" ->
            [i \in 1 .. Size(swapChainImages) |->
                Create(<<"swapChainImageView", i - 1>>)]
      [] fn = "createDepthResources" ->
            << Create(Obj("depthImage")), Create(Obj("depthImageView")) >>
      [] fn = "initSyncObjects" ->
            << Create(Obj("commandPool")) >>
            \o Flatten([i \in 1 .. MAX_FRAMES_IN_FLIGHT |->
                  << Create(<<"imageAvailableSemaphore", i - 1>>),
                     Create(<<"inFlightFence", i - 1>>) >>])
            \o [i \in 1 .. RenderFinishedCount |->
                  Create(<<"renderFinishedSemaphore", i - 1>>)]
      [] fn = "loadImages" -> LoadImagesHead
      [] fn = "createTextureSampler" -> << Create(Obj("textureSampler")) >>
      [] fn = "initDescriptors" ->
            << Create(Obj("descriptorSetLayout")), Create(Obj("descriptorPool")),
               <<"allocate", Obj("descriptorSet")>>,
               <<"write", Obj("descriptorSet")>> >>
      [] fn = "createGraphicsPipeline" ->
            << Create(Obj("vertShaderModule")), Create(Obj("fragShaderModule")),
               Create(Obj("pipelineLayout")), Create(Obj("graphicsPipeline")),
               Destroy(Obj("vertShaderModule")), Destroy(Obj("fragShaderModule")) >>
      [] fn = "loadMeshes" ->
            Flatten([i \in 1 .. m |->
                  << Create(<<"vertexBuffer", i - 1>>),
                     <<"memcpy", <<"vertexBuffer", i - 1>> >>,
                     Create(<<"indexBuffer", i - 1>>),
                     <<"memcpy", <<"indexBuffer", i - 1>> >> >>])

\* an init call that only creates objects returns normally
InitPlain ==
    /\ pc \in InitFns \ {"createSwapChain", "createImageViews",
                         "initSyncObjects", "loadImages", "loadMeshes"}
    /\ log' = log \o InitEvents(pc, 0)
    /\ pc' = InitNext(pc)
    /\ UNCHANGED <<exitCode, windowAlive, frameBufferResized, swapVars,
                   syncVars, frameVars, gpuVars, errVars, initVars>>

ImageCount_unbounded(minc, maxc) == minc + 1

\* image count createSwapChain requests for capabilities (minc, maxc)
ImageCount(minc, maxc) ==
    IF maxc > 0 /\ minc + 1 > maxc THEN maxc ELSE minc + 1

\* createSwapChain: the requested count comes from the surface capabilities;
\* getSwapchainImagesKHR returns at least that many images.
createSwapChain ==
    /\ pc = "createSwapChain"
    /\ \E minc \in 1 .. (MaxImages - 1), maxc \in 0 .. MaxImages :
         /\ maxc = 0 \/ maxc >= minc
         /\ \E n \in ImageCount(minc, maxc) .. MaxImages :
              /\ swapChainImages' = Vec(n, "free")
              /\ rendered' = Vec(n, FALSE)
    /\ log' = log \o InitEvents(pc, 0)
    /\ pc' = InitNext(pc)
    /\ UNCHANGED <<exitCode, windowAlive, frameBufferResized,
                   swapChainImageViews, syncVars, frameVars, pendingSubs,
                   presentQueue, executing, errVars, initVars>>

\* createImageViews: swapChainImageViews_.resize(swapChainImages_.size())
createImageViews ==
    /\ pc = "createImageViews"
    /\ swapChainImageViews' = Vec(Size(swapChainImages), "view")
    /\ log' = log \o InitEvents(pc, 0)
    /\ pc' = InitNext(pc)
    /\ UNCHANGED <<exitCode, windowAlive, frameBufferResized, swapChainImages,
                   syncVars, frameVars, gpuVars, errVars, initVars>>

\* initSyncObjects: command buffers and per-slot objects are sized by
\* MAX_FRAMES_IN_FLIGHT, fences are created signaled.
initSyncObjects ==
    /\ pc = "initSyncObjects"
    /\ commandBuffers' = Vec(MAX_FRAMES_IN_FLIGHT,
                            [state |-> "initial", image |-> -1, cmds |-> <<>>])
    /\ imageAvailableSemaphores' = Vec(MAX_FRAMES_IN_FLIGHT, "unsignaled")
    /\ renderFinishedSemaphores' = Vec(RenderFinishedCount, "unsignaled")
    /\ inFlightFences' = Vec(MAX_FRAMES_IN_FLIGHT, "signaled")
    /\ log' = log \o InitEvents(pc, 0)
    /\ pc' = InitNext(pc)
    /\ UNCHANGED <<exitCode, windowAlive, frameBufferResized, swapVars,
                   currentFrame, imageIndex, framesDone, stepLog, gpuVars,
                   errVars, initVars>>

\* loadImages up to graphicsQueue_.submit inside immediateSubmit: the texture
\* image is created in layout undefined and the upload is queued
loadImages ==
    /\ pc = "loadImages"
    /\ log' = log \o InitEvents(pc, 0)
    /\ textureLayout' = "undefined"
    /\ immediate' = [state |-> "pending", cmds |-> UploadCommands]
    /\ pc' = "immediateSubmit"
    /\ UNCHANGED <<exitCode, windowAlive, frameBufferResized, swapVars,
                   syncVars, frameVars, gpuVars, errVars, meshes,
                   negotiationVars, deviceVars>>

QueueWaitIdleReturns_noWait == TRUE

\* graphicsQueue_.waitIdle() returns when the queue has executed everything
\* submitted to it
QueueWaitIdleReturns == immediate.cmds = <<>> /\ pendingSubs = <<>>

\* immediateSubmit from graphicsQueue_.waitIdle() on: the wait blocks until
\* the queue is idle, the command buffer is freed, immediateSubmit returns
\* and loadImages destroys the staging buffer and creates the image view;
\* or the wait throws
immediateSubmit ==
    /\ pc = "immediateSubmit"
    /\ \/ /\ QueueWaitIdleReturns
          /\ log' = log \o ImmediateSubmitTail \o LoadImagesTail
          /\ immediate' = [immediate EXCEPT !.state = "freed"]
          /\ pc' = InitNext("loadImages")
          /\ UNCHANGED <<lastError, exitCode, windowAlive>>
       \/ /\ Throw("immediateSubmit", "exception")
          /\ UNCHANGED <<log, immediate>>
    /\ UNCHANGED <<frameBufferResized, swapVars, syncVars, frameVars,
                   gpuVars, faults, meshes, textureLayout, negotiationVars,
                   deviceVars>>

\* effect of one recorded command on the layout of the texture image
RunCommand(layout, c) ==
    CASE c = "barrierToTransfer" -> "transferDst"
      [] c = "copyBufferToImage" ->
            IF layout = "transferDst" THEN layout ELSE "invalid"
      [] c = "barrierToShaderRead" ->
            IF layout = "transferDst" THEN "shaderRead" ELSE "invalid"

RECURSIVE RunCommands(_, _)
RunCommands(layout, cmds) ==
    IF cmds = <<>> THEN layout
    ELSE RunCommands(RunCommand(layout, Head(cmds)), Tail(cmds))

\* the graphics queue executes the submission of immediateSubmit
GpuExecuteImmediate ==
    /\ immediate.cmds # <<>>
    /\ pendingSubs = <<>>
    /\ textureLayout' = RunCommands(textureLayout, immediate.cmds)
    /\ immediate' = [state |-> IF immediate.state = "pending"
                               THEN "completed" ELSE immediate.state,
                     cmds |-> <<>>]
    /\ log' = Append(log, <<"complete", Obj("immediateCmd")>>)
    /\ UNCHANGED <<pc, exitCode, windowAlive, frameBufferResized, swapVars,
                   syncVars, frameVars, gpuVars, errVars, meshes,
                   negotiationVars, deviceVars>>

\* loadMeshes: one vertex and one index buffer per shape of the model file
loadMeshes ==
    /\ pc = "loadMeshes"
    /\ \E m \in 1 .. MaxMeshes :
         /\ meshes' = m
         /\ log' = log \o InitEvents(pc, m)
    /\ pc' = InitNext(pc)
    /\ UNCHANGED <<exitCode, windowAlive, frameBufferResized, swapVars,
                   syncVars, frameVars, gpuVars, errVars, uploadVars,
                   negotiationVars, deviceVars>>

\* any init call may throw after a prefix of its effects; the exception
\* propagates out of init to main()
InitThrows ==
    /\ pc \in InitFns
    /\ \E m \in 1 .. MaxMeshes :
         \E k \in 0 .. Max(Len(InitEvents(pc, m)) - 1, 0) :
            log' = log \o SubSeq(InitEvents(pc, m), 1, k)
    /\ Throw(pc, "exception")
    /\ UNCHANGED <<frameBufferResized, swapVars, syncVars, frameVars,
                   gpuVars, faults, initVars>>

\* ------------------------------------------------------------ render loop
\* what neither drawFrame nor the GPU changes
frameStatic == <<frameBufferResized, log, swapChainImageViews, initVars>>

\* Window::frameBufferResizedCallback: sets the resize flag
frameBufferResizedCallback == TRUE

\* while (!window.shouldClose()): the window was closed, the loop ends
LoopClose ==
    /\ pc = "loop"
    /\ pc' = "waitIdle"
    /\ UNCHANGED <<exitCode, windowAlive, frameBufferResized, log, swapVars,
                   syncVars, frameVars, gpuVars, errVars, initVars>>

\* One iteration up to the call of drawFrame: pollEvents may run the resize
\* callback; a zero-sized framebuffer skips the frame.
LoopIterate ==
    /\ pc = "loop"
    /\ framesDone < MaxFrames
    /\ \E resized \in BOOLEAN :
         frameBufferResized' =
            IF resized THEN frameBufferResizedCallback ELSE frameBufferResized
    /\ \E minimized \in BOOLEAN :
         IF minimized
         THEN /\ pc' = "loop"
              /\ UNCHANGED <<imageIndex, stepLog>>
         ELSE /\ pc' = "waitForFences"
              /\ imageIndex' = -1
              /\ stepLog' = <<>>
    /\ UNCHANGED <<exitCode, windowAlive, log, swapVars, syncVars,
                   commandBuffers, currentFrame, framesDone, gpuVars, errVars,
                   initVars>>

\* ---------------------------------------------------------------- drawFrame
\* The statements of drawFrame in program order.
DrawFrameOrder ==
    << "waitForFences", "resetFences", "acquireNextImageKHR", "record",
       "submit", "presentKHR", "advance" >>

StepIndex(step) == CHOOSE i \in DOMAIN DrawFrameOrder : DrawFrameOrder[i] = step

DrawFrameNext_skipRecord(step) ==
    IF step = "advance" THEN "loop"
    ELSE IF step = "acquireNextImageKHR" THEN "submit"
    ELSE DrawFrameOrder[StepIndex(step) + 1]

\* where control goes after a statement of drawFrame
DrawFrameNext(step) ==
    IF StepIndex(step) = Len(DrawFrameOrder) THEN "loop"
    ELSE DrawFrameOrder[StepIndex(step) + 1]

\* a statement of drawFrame completes and control moves on
Done(step) ==
    /\ stepLog' = Append(stepLog, step)
    /\ pc' = DrawFrameNext(step)
    /\ UNCHANGED <<exitCode, windowAlive>>

\* a call whose result drawFrame discards returns an error
Ignored(call, result) ==
    /\ faults < MaxFaults
    /\ faults' = faults + 1
    /\ lastError' = IF lastError = NoError
                    THEN [call |-> call, result |-> result]
                    ELSE lastError

\* results with which a Vulkan call can fail
ErrorResults == {"VK_ERROR_OUT_OF_DEVICE_MEMORY"}

\* results that report a stale surface
StaleResults == {"VK_ERROR_OUT_OF_DATE_KHR"}

HostReady_submitWaits(step) ==
    CASE step = "waitForFences" -> inFlightFences[currentFrame] = "signaled"
      [] step = "acquireNextImageKHR" ->
            \E i \in DOMAIN swapChainImages : swapChainImages[i] = "free"
      [] step = "submit" -> pendingSubs = <<>>
      [] OTHER -> TRUE

\* the statement can return without the GPU or the presentation engine
\* making progress first: waitForFences and acquireNextImageKHR are called
\* with timeout UINT64_MAX and wait for the fence / for an image, the other
\* statements only record or queue work
HostReady(step) ==
    CASE step = "waitForFences" -> inFlightFences[currentFrame] = "signaled"
      [] step = "acquireNextImageKHR" ->
            \E i \in DOMAIN swapChainImages : swapChainImages[i] = "free"
      [] OTHER -> TRUE

RenderFinishedIndex_perFrame == currentFrame

\* index of the render-finished semaphore drawFrame signals and waits on
RenderFinishedIndex == imageIndex

\* (void)device_.waitForFences(1, &inFlightFence, vk::True, UINT64_MAX):
\* returns once the fence is signaled, or returns an error; the result is
\* discarded.
waitForFences ==
    /\ pc = "waitForFences"
    /\ \/ /\ HostReady("waitForFences")
          /\ UNCHANGED errVars
       \/ \E r \in ErrorResults : Ignored("waitForFences", r)
    /\ Done("waitForFences")
    /\ UNCHANGED <<frameStatic, swapChainImages, syncVars,
                   commandBuffers, currentFrame, imageIndex, framesDone, gpuVars>>

\* (void)device_.resetFences(1, &inFlightFence): result discarded
resetFences ==
    /\ pc = "resetFences"
    /\ \/ /\ inFlightFences' = [inFlightFences EXCEPT ![currentFrame] = "unsignaled"]
          /\ UNCHANGED errVars
       \/ /\ \E r \in ErrorResults : Ignored("resetFences", r)
          /\ UNCHANGED inFlightFences
    /\ Done("resetFences")
    /\ UNCHANGED <<frameStatic, swapChainImages,
                   renderFinishedSemaphores, imageAvailableSemaphores,
                   commandBuffers, currentFrame, imageIndex, framesDone, gpuVars>>

\* device_.acquireNextImageKHR(swapChain_, UINT64_MAX, imageAvailableSemaphore):
\* blocks until the presentation engine has an image to hand out, returns its
\* index and signals the slot's semaphore; an error result is thrown.
acquireNextImageKHR ==
    /\ pc = "acquireNextImageKHR"
    /\ \/ /\ HostReady("acquireNextImageKHR")
          /\ \E i \in DOMAIN swapChainImages :
               /\ swapChainImages[i] = "free"
               /\ imageIndex' = i
               /\ swapChainImages' = [swapChainImages EXCEPT ![i] = "acquired"]
          /\ imageAvailableSemaphores' =
                [imageAvailableSemaphores EXCEPT ![currentFrame] = "signaled"]
          /\ Done("acquireNextImageKHR")
          /\ UNCHANGED errVars
       \/ /\ \E r \in ErrorResults \cup StaleResults :
               Throw("acquireNextImageKHR", r)
          /\ stepLog' = Append(stepLog, "acquireNextImageKHR")
          /\ UNCHANGED <<imageIndex, swapChainImages,
                         imageAvailableSemaphores, faults>>
    /\ UNCHANGED <<frameStatic, renderFinishedSemaphores, inFlightFences,
                   commandBuffers, currentFrame, framesDone, gpuVars>>

\* image drawFrame hands to the presentation queue
PresentImage == imageIndex

RecordedCommands_presentEarly(image, m) ==
    << <<"toColorAttachment", <<"swapChainImage", image>> >>,
       <<"toDepthAttachment", Obj("depthImage")>>,
       <<"beginRendering", <<"swapChainImageView", image>>, Obj("depthImageView")>>,
       <<"bindPipeline", Obj("graphicsPipeline")>>,
       <<"bindDescriptorSets", Obj("descriptorSet")>> >>
    \o Flatten([i \in 1 .. m |->
          << <<"bindVertexBuffers", <<"vertexBuffer", i - 1>> >>,
             <<"bindIndexBuffer", <<"indexBuffer", i - 1>> >>,
             <<"pushConstants", <<"mesh", i - 1>> >>,
             <<"drawIndexed", <<"mesh", i - 1>> >> >>])
    \o << <<"toPresent", <<"swapChainImage", image>> >>,
          <<"endRendering", Obj("commandBuffer")>> >>

\* the commands drawFrame records between commandBuffer.begin and
\* commandBuffer.end, in program order, for the acquired image and the m
\* entries of meshes_: the two layout transitions, beginRendering with the
\* image's view and the depth view, the binds, per mesh its buffers, push
\* constants and indexed draw (index count mesh.indices.size()),
\* endRendering, the transition to present layout
RecordedCommands(image, m) ==
    << <<"toColorAttachment", <<"swapChainImage", image>> >>,
       <<"toDepthAttachment", Obj("depthImage")>>,
       <<"beginRendering", <<"swapChainImageView", image>>, Obj("depthImageView")>>,
       <<"bindPipeline", Obj("graphicsPipeline")>>,
       <<"bindDescriptorSets", Obj("descriptorSet")>> >>
    \o Flatten([i \in 1 .. m |->
          << <<"bindVertexBuffers", <<"vertexBuffer", i - 1>> >>,
             <<"bindIndexBuffer", <<"indexBuffer", i - 1>> >>,
             <<"pushConstants", <<"mesh", i - 1>> >>,
             <<"drawIndexed", <<"mesh", i - 1>> >> >>])
    \o << <<"endRendering", Obj("commandBuffer")>>,
          <<"toPresent", <<"swapChainImage", image>> >> >>

\* commandBuffer.reset(); begin; barriers, rendering, draws; end:
\* the slot's command buffer is re-recorded for the acquired image
record ==
    /\ pc = "record"
    /\ HostReady("record")
    /\ commandBuffers' = [commandBuffers EXCEPT
            ![currentFrame] = [state |-> "executable", image |-> imageIndex,
                               cmds |-> RecordedCommands(imageIndex, meshes)]]
    /\ Done("record")
    /\ UNCHANGED <<frameStatic, swapChainImages, syncVars,
                   currentFrame, imageIndex, framesDone, gpuVars, errVars>>

\* (void)graphicsQueue_.submit(1, &submitInfo, inFlightFence): the command
\* buffer is queued, to wait on the slot's image-available semaphore and to
\* signal the render-finished semaphore and the slot's fence; or the call
\* fails and queues nothing; the result is discarded.
submit ==
    /\ pc = "submit"
    /\ \/ /\ HostReady("submit")
          /\ pendingSubs' = Append(pendingSubs,
                [slot |-> currentFrame,
                 image |-> commandBuffers[currentFrame].image,
                 signal |-> RenderFinishedIndex])
          /\ commandBuffers' = [commandBuffers EXCEPT ![currentFrame].state = "pending"]
          /\ UNCHANGED errVars
       \/ /\ \E r \in ErrorResults : Ignored("submit", r)
          /\ UNCHANGED <<pendingSubs, commandBuffers>>
    /\ Done("submit")
    /\ UNCHANGED <<frameStatic, swapChainImages, syncVars,
                   currentFrame, imageIndex, framesDone, presentQueue, rendered,
                   executing>>

\* (void)presentQueue_.presentKHR(presentInfo): the image is queued for
\* presentation behind the render-finished semaphore; an error result is thrown.
presentKHR ==
    /\ pc = "presentKHR"
    /\ \/ /\ HostReady("presentKHR")
          /\ presentQueue' = Append(presentQueue,
                [image |-> PresentImage, wait |-> RenderFinishedIndex])
          /\ swapChainImages' = [swapChainImages EXCEPT ![PresentImage] = "queued"]
          /\ Done("presentKHR")
          /\ UNCHANGED errVars
       \/ /\ \E r \in ErrorResults \cup StaleResults : Throw("presentKHR", r)
          /\ stepLog' = Append(stepLog, "presentKHR")
          /\ UNCHANGED <<presentQueue, swapChainImages, faults>>
    /\ UNCHANGED <<frameStatic, syncVars, commandBuffers,
                   currentFrame, imageIndex, framesDone, pendingSubs, rendered,
                   executing>>

NextFrame_stuck(cf) == cf

\* the slot index after a frame
NextFrame(cf) == (cf + 1) % MAX_FRAMES_IN_FLIGHT

\* currentFrame_ = (currentFrame_ + 1) % MAX_FRAMES_IN_FLIGHT; drawFrame returns
advance ==
    /\ pc = "advance"
    /\ HostReady("advance")
    /\ currentFrame' = NextFrame(currentFrame)
    /\ framesDone' = framesDone + 1
    /\ imageIndex' = -1
    /\ Done("advance")
    /\ UNCHANGED <<frameStatic, swapChainImages, syncVars, commandBuffers,
                   gpuVars, errVars>>

\* -------------------------------------------------- GPU and presentation
\* some queued submission will signal render-finished semaphore k
SignalPending(k) == \E j \in DOMAIN pendingSubs : pendingSubs[j].signal = k

\* The graphics queue completes its oldest submission once the semaphore it
\* waits on is signaled: the wait unsignals it, the commands render into the
\* image, then the render-finished semaphore and the fence are signaled.
Complete ==
    /\ pendingSubs # <<>>
    /\ immediate.cmds = <<>>
    /\ LET sub == Head(pendingSubs)
           rest == Tail(pendingSubs)
           again == \E j \in DOMAIN rest : rest[j].slot = sub.slot
       IN /\ imageAvailableSemaphores[sub.slot] = "signaled"
          /\ imageAvailableSemaphores' =
                [imageAvailableSemaphores EXCEPT ![sub.slot] = "unsignaled"]
          /\ rendered' = [rendered EXCEPT ![sub.image] = TRUE]
          /\ renderFinishedSemaphores' =
                [renderFinishedSemaphores EXCEPT ![sub.signal] = "signaled"]
          /\ inFlightFences' = [inFlightFences EXCEPT ![sub.slot] = "signaled"]
          /\ commandBuffers' =
                IF commandBuffers[sub.slot].state = "pending" /\ ~again
                THEN [commandBuffers EXCEPT ![sub.slot].state = "executable"]
                ELSE commandBuffers
          /\ pendingSubs' = rest
    /\ UNCHANGED <<hostVars, swapVars, currentFrame, imageIndex, framesDone,
                   stepLog, presentQueue, errVars, initVars>>

\* the graphics queue runs its oldest submission from start to completion
GpuExecute ==
    /\ executing = 0
    /\ Complete
    /\ UNCHANGED executing

\* source stage mask of the depth barrier drawFrame records
DepthBarrierSrcStage == "TopOfPipe"

\* stage at which the submission waits for the image-available semaphore
WaitStage == "ColorAttachmentOutput"

\* pipeline stages in execution order
StageOrder ==
    << "TopOfPipe", "EarlyFragmentTests", "LateFragmentTests",
       "ColorAttachmentOutput", "BottomOfPipe" >>

StageIndex(stage) == CHOOSE i \in DOMAIN StageOrder : StageOrder[i] = stage

\* the depth barrier makes the frame's depth accesses wait for the depth
\* writes of earlier submissions: its source stage mask reaches the stages
\* that write depth
DepthBarrierWaits ==
    StageIndex(DepthBarrierSrcStage) >= StageIndex("LateFragmentTests")

\* The commands of the next queued submission begin: the depth transition
\* and the depth tests run before the stage that waits for the
\* image-available semaphore, so they are not held back by it, and they are
\* ordered after the previous submission only by the depth barrier.
GpuStart ==
    /\ executing < Len(pendingSubs)
    /\ immediate.cmds = <<>>
    /\ StageIndex("EarlyFragmentTests") < StageIndex(WaitStage)
    /\ DepthBarrierWaits => executing = 0
    /\ executing' = executing + 1
    /\ UNCHANGED <<hostVars, swapVars, syncVars, frameVars, pendingSubs,
                   presentQueue, rendered, errVars, initVars>>

\* the oldest submission, whose commands have begun, completes
GpuFinish ==
    /\ executing >= 1
    /\ Complete
    /\ executing' = executing - 1

\* The presentation engine executes its oldest present request once the
\* semaphore it waits on is signaled, shows the image and releases it (its
\* contents are undefined to the application from then on).
PePresent ==
    /\ presentQueue # <<>>
    /\ LET p == Head(presentQueue)
       IN /\ renderFinishedSemaphores[p.wait] = "signaled"
          /\ renderFinishedSemaphores' =
                [renderFinishedSemaphores EXCEPT ![p.wait] = "unsignaled"]
          /\ swapChainImages' = [swapChainImages EXCEPT ![p.image] = "free"]
          /\ rendered' = [rendered EXCEPT ![p.image] = FALSE]
          /\ presentQueue' = Tail(presentQueue)
    /\ UNCHANGED <<hostVars, swapChainImageViews, imageAvailableSemaphores,
                   inFlightFences, frameVars, pendingSubs, executing, errVars,
                   initVars>>

\* A present request that waits on a semaphore nothing will signal is invalid
\* usage: the presentation engine may hang on it or may show the image anyway.
PePresentUndefined ==
    /\ presentQueue # <<>>
    /\ LET p == Head(presentQueue)
       IN /\ renderFinishedSemaphores[p.wait] = "unsignaled"
          /\ ~SignalPending(p.wait)
          /\ swapChainImages' = [swapChainImages EXCEPT ![p.image] = "free"]
          /\ rendered' = [rendered EXCEPT ![p.image] = FALSE]
          /\ presentQueue' = Tail(presentQueue)
    /\ UNCHANGED <<hostVars, swapChainImageViews, syncVars, frameVars,
                   pendingSubs, executing, errVars, initVars>>

\* ----------------------------------------------------------------- shutdown
WaitIdleReturns_noWait == TRUE

\* device_.waitIdle() returns when no queue has work left
WaitIdleReturns == pendingSubs = <<>> /\ presentQueue = <<>>

\* engine.waitIdle() in main(), after the loop: blocks until the device is
\* idle, or throws
waitIdle ==
    /\ pc = "waitIdle"
    /\ \/ /\ WaitIdleReturns
          /\ log' = Append(log, WaitIdleEv)
          /\ pc' = "cleanup"
          /\ UNCHANGED <<lastError, exitCode, windowAlive>>
       \/ /\ \E r \in ErrorResults : Throw("waitIdle", r)
          /\ UNCHANGED log
    /\ UNCHANGED <<frameBufferResized, swapVars, syncVars, frameVars, gpuVars,
                   faults, initVars>>

CleanupSeq_perFrameSemaphores ==
    << WaitIdleEv >>
    \o [i \in 1 .. MAX_FRAMES_IN_FLIGHT |->
            Destroy(<<"renderFinishedSemaphore", i - 1>>)]
    \o Flatten([i \in 1 .. MAX_FRAMES_IN_FLIGHT |->
            << Destroy(<<"imageAvailableSemaphore", i - 1>>),
               Destroy(<<"inFlightFence", i - 1>>) >>])
    \o << Destroy(Obj("commandPool")),
          Destroy(Obj("graphicsPipeline")), Destroy(Obj("pipelineLayout")),
          Destroy(Obj("descriptorPool")), Destroy(Obj("descriptorSetLayout")),
          Destroy(Obj("depthImageView")), Destroy(Obj("depthImage")),
          Destroy(Obj("textureImageView")), Destroy(Obj("textureImage")),
          Destroy(Obj("textureSampler")) >>
    \o [i \in 1 .. Size(swapChainImageViews) |->
            Destroy(<<"swapChainImageView", i - 1>>)]
    \o << Destroy(Obj("swapchain")) >>
    \o Flatten([i \in 1 .. meshes |->
            << Destroy(<<"vertexBuffer", i - 1>>),
               Destroy(<<"indexBuffer", i - 1>>) >>])
    \o << Destroy(Obj("allocator")), Destroy(Obj("device")),
          Destroy(Obj("surface")), Destroy(Obj("instance")) >>

CleanupSeq_allocatorFirst ==
    << WaitIdleEv >>
    \o [i \in 1 .. Size(swapChainImages) |->
            Destroy(<<"renderFinishedSemaphore", i - 1>>)]
    \o Flatten([i \in 1 .. MAX_FRAMES_IN_FLIGHT |->
            << Destroy(<<"imageAvailableSemaphore", i - 1>>),
               Destroy(<<"inFlightFence", i - 1>>) >>])
    \o << Destroy(Obj("commandPool")),
          Destroy(Obj("graphicsPipeline")), Destroy(Obj("pipelineLayout")),
          Destroy(Obj("descriptorPool")), Destroy(Obj("descriptorSetLayout")),
          Destroy(Obj("depthImageView")), Destroy(Obj("depthImage")),
          Destroy(Obj("textureImageView")), Destroy(Obj("textureImage")),
          Destroy(Obj("textureSampler")) >>
    \o [i \in 1 .. Size(swapChainImageViews) |->
            Destroy(<<"swapChainImageView", i - 1>>)]
    \o << Destroy(Obj("swapchain")) >>
    \o << Destroy(Obj("allocator")) >>
    \o Flatten([i \in 1 .. meshes |->
            << Destroy(<<"vertexBuffer", i - 1>>),
               Destroy(<<"indexBuffer", i - 1>>) >>])
    \o << Destroy(Obj("device")), Destroy(Obj("surface")),
          Destroy(Obj("instance")) >>

\* The calls of cleanup in program order (device_, surface_ and instance_ are
\* all set once init has returned).
CleanupSeq ==
    << WaitIdleEv >>
    \o [i \in 1 .. Size(swapChainImages) |->
            Destroy(<<"renderFinishedSemaphore", i - 1>>)]
    \o Flatten([i \in 1 .. MAX_FRAMES_IN_FLIGHT |->
            << Destroy(<<"imageAvailableSemaphore", i - 1>>),
               Destroy(<<"inFlightFence", i - 1>>) >>])
    \o << Destroy(Obj("commandPool")),
          Destroy(Obj("graphicsPipeline")), Destroy(Obj("pipelineLayout")),
          Destroy(Obj("descriptorPool")), Destroy(Obj("descriptorSetLayout")),
          Destroy(Obj("depthImageView")), Destroy(Obj("depthImage")),
          Destroy(Obj("textureImageView")), Destroy(Obj("textureImage")),
          Destroy(Obj("textureSampler")) >>
    \o [i \in 1 .. Size(swapChainImageViews) |->
            Destroy(<<"swapChainImageView", i - 1>>)]
    \o << Destroy(Obj("swapchain")) >>
    \o Flatten([i \in 1 .. meshes |->
            << Destroy(<<"vertexBuffer", i - 1>>),
               Destroy(<<"indexBuffer", i - 1>>) >>])
    \o << Destroy(Obj("allocator")), Destroy(Obj("device")),
          Destroy(Obj("surface")), Destroy(Obj("instance")) >>

\* engine.cleanup(): the device-idle wait blocks until the device is idle and
\* every call of CleanupSeq follows, or the wait throws and nothing is
\* destroyed
cleanup ==
    /\ pc = "cleanup"
    /\ \/ /\ WaitIdleReturns
          /\ log' = log \o CleanupSeq
          /\ pc' = "scopeExit"
          /\ UNCHANGED <<lastError, exitCode, windowAlive>>
       \/ /\ \E r \in ErrorResults : Throw("cleanup", r)
          /\ UNCHANGED log
    /\ UNCHANGED <<frameBufferResized, swapVars, syncVars, frameVars, gpuVars,
                   faults, initVars>>

\* the try block ends: ~Window destroys the native window, main returns 0
ScopeExit ==
    /\ pc = "scopeExit"
    /\ windowAlive' = FALSE
    /\ exitCode' = 0
    /\ pc' = "exited"
    /\ UNCHANGED <<frameBufferResized, log, swapVars, syncVars, frameVars,
                   gpuVars, errVars, initVars>>

\* ------------------------------------------------- swapchain negotiation
\* std::numeric_limits<uint32_t>::max(), for unsigned integers WordBits wide
UINT32_MAX == 2 ^ WordBits - 1

\* the entry chooseSwapSurfaceFormat looks for
PreferredFormat == [format |-> "B8G8R8A8_SRGB", colorSpace |-> "SRGB_NONLINEAR"]

\* surface formats a device may report
SurfaceFormats ==
    { PreferredFormat,
      [format |-> "B8G8R8A8_SRGB", colorSpace |-> "DISPLAY_P3_NONLINEAR"],
      [format |-> "R8G8B8A8_UNORM", colorSpace |-> "SRGB_NONLINEAR"] }

\* present modes a device may report
PresentModes == {"FIFO", "MAILBOX", "IMMEDIATE"}

\* the lists over S of length lo .. hi
Lists(S, lo, hi) == UNION {[1 .. n -> S] : n \in lo .. hi}

\* image extents a surface may report as limits and as current extent
MinImageExtent == [width |-> 1, height |-> 1]

MaxImageExtent == [width |-> 2, height |-> 2]

CurrentExtents ==
    { [width |-> UINT32_MAX, height |-> UINT32_MAX], [width |-> 1, height |-> 2] }

\* framebuffer sizes of the window: below, inside and above the limits
FrameBufferSizes == [width : {0, 2, 3}, height : {0, 2, 3}]

chooseSwapSurfaceFormat_first(availableFormats) == availableFormats[1]

\* the first entry that is B8G8R8A8 sRGB with the sRGB non-linear color
\* space, else availableFormats[0]
chooseSwapSurfaceFormat(availableFormats) ==
    LET hits == {i \in DOMAIN availableFormats :
                    /\ availableFormats[i].format = "B8G8R8A8_SRGB"
                    /\ availableFormats[i].colorSpace = "SRGB_NONLINEAR"}
    IN IF hits # {}
       THEN availableFormats[CHOOSE i \in hits : \A j \in hits : i <= j]
       ELSE availableFormats[1]

chooseSwapPresentMode_first(availablePresentModes) ==
    IF availablePresentModes = <<>> THEN "FIFO" ELSE availablePresentModes[1]

\* the MAILBOX entry if the loop finds one, else eFifo
chooseSwapPresentMode(availablePresentModes) ==
    IF \E i \in DOMAIN availablePresentModes : availablePresentModes[i] = "MAILBOX"
    THEN "MAILBOX"
    ELSE "FIFO"

\* std::clamp(v, lo, hi)
Clamp(v, lo, hi) == IF v < lo THEN lo ELSE IF hi < v THEN hi ELSE v

chooseSwapExtent_noClamp(capabilities, size) ==
    IF capabilities.currentExtent.width # UINT32_MAX
    THEN capabilities.currentExtent
    ELSE [width |-> size.width % (UINT32_MAX + 1),
          height |-> size.height % (UINT32_MAX + 1)]

\* the current extent unless its width is the sentinel; else the framebuffer
\* size of the window, cast to uint32_t and clamped per axis
chooseSwapExtent(capabilities, size) ==
    IF capabilities.currentExtent.width # UINT32_MAX
    THEN capabilities.currentExtent
    ELSE [width |-> Clamp(size.width % (UINT32_MAX + 1),
                          capabilities.minImageExtent.width,
                          capabilities.maxImageExtent.width),
          height |-> Clamp(size.height % (UINT32_MAX + 1),
                           capabilities.minImageExtent.height,
                           capabilities.maxImageExtent.height)]

\* querySwapChainSupport(physicalDevice_): what the surface reports, and the
\* size of the window at that time
querySwapChainSupport ==
    /\ ~swapChainSupport.queried
    /\ \E minc \in 1 .. (MaxImages - 1), maxc \in 0 .. MaxImages,
          cur \in CurrentExtents,
          fs \in Lists(SurfaceFormats, 1, MaxList),
          ms \in Lists(PresentModes, 0, MaxList) :
         /\ maxc = 0 \/ maxc >= minc
         /\ swapChainSupport' =
               [queried |-> TRUE,
                capabilities |-> [minImageCount |-> minc,
                                  maxImageCount |-> maxc,
                                  currentExtent |-> cur,
                                  minImageExtent |-> MinImageExtent,
                                  maxImageExtent |-> MaxImageExtent],
                formats |-> fs,
                presentModes |-> ms]
    /\ \E size \in FrameBufferSizes : frameBufferSize' = size
    /\ UNCHANGED <<hostVars, swapVars, syncVars, frameVars, gpuVars, errVars,
                   meshes, uploadVars, createInfo, deviceVars>>

\* createSwapChain from the choice of format, mode and extent to the
\* construction of createInfo
fillCreateInfo ==
    /\ swapChainSupport.queried
    /\ ~createInfo.filled
    /\ LET surfaceFormat == chooseSwapSurfaceFormat(swapChainSupport.formats)
           caps == swapChainSupport.capabilities
       IN createInfo' =
            [filled |-> TRUE,
             minImageCount |-> ImageCount(caps.minImageCount, caps.maxImageCount),
             imageFormat |-> surfaceFormat.format,
             imageColorSpace |-> surfaceFormat.colorSpace,
             imageExtent |-> chooseSwapExtent(caps, frameBufferSize),
             presentMode |-> chooseSwapPresentMode(swapChainSupport.presentModes)]
    /\ UNCHANGED <<hostVars, swapVars, syncVars, frameVars, gpuVars, errVars,
                   meshes, uploadVars, swapChainSupport, frameBufferSize,
                   deviceVars>>

\* -------------------------------------------------------- device selection
\* vk::PhysicalDeviceType
DeviceTypes == {"Other", "IntegratedGpu", "DiscreteGpu", "VirtualGpu", "Cpu"}

\* instance_.enumeratePhysicalDevices(): the devices of the machine, by type
enumeratePhysicalDevices ==
    /\ ~devices.enumerated
    /\ \E list \in Lists(DeviceTypes, 0, MaxDevices) :
         devices' = [enumerated |-> TRUE, list |-> list]
    /\ UNCHANGED <<hostVars, swapVars, syncVars, frameVars, gpuVars, errVars,
                   meshes, uploadVars, negotiationVars, physicalDevice>>

RECURSIVE SelectDiscrete_last(_, _, _)
SelectDiscrete_last(list, i, selected) ==
    IF i > Len(list) THEN selected
    ELSE IF list[i] = "DiscreteGpu"
         THEN SelectDiscrete_last(list, i + 1, i)
         ELSE SelectDiscrete_last(list, i + 1, selected)

\* the for loop of pickPhysicalDevice from position i on: physicalDevice_
\* becomes the device at hand if it is a discrete GPU and the loop breaks
RECURSIVE SelectDiscrete(_, _, _)
SelectDiscrete(list, i, selected) ==
    IF i > Len(list) THEN selected
    ELSE IF list[i] = "DiscreteGpu"
         THEN i
         ELSE SelectDiscrete(list, i + 1, selected)

\* pickPhysicalDevice after the enumeration: an empty list throws; else the
\* loop runs and a physicalDevice_ still null becomes devices[0]
pickPhysicalDevice ==
    /\ devices.enumerated
    /\ physicalDevice = 0
    /\ lastError = NoError
    /\ IF devices.list = <<>>
       THEN /\ Throw("pickPhysicalDevice", "exception")
            /\ UNCHANGED physicalDevice
       ELSE /\ LET selected == SelectDiscrete(devices.list, 1, physicalDevice)
               IN physicalDevice' = IF selected = 0 THEN 1 ELSE selected
            /\ UNCHANGED <<pc, exitCode, windowAlive, lastError>>
    /\ UNCHANGED <<frameBufferResized, log, swapVars, syncVars, frameVars,
                   gpuVars, faults, meshes, uploadVars, negotiationVars, devices>>

\* ------------------------------------------------------------ specification
Next ==
    \/ WindowCtor
    \/ InitPlain
    \/ createSwapChain
    \/ createImageViews
    \/ initSyncObjects
    \/ loadImages
    \/ immediateSubmit
    \/ GpuExecuteImmediate
    \/ loadMeshes
    \/ InitThrows
    \/ LoopClose
    \/ LoopIterate
    \/ waitForFences
    \/ resetFences
    \/ acquireNextImageKHR
    \/ record
    \/ submit
    \/ presentKHR
    \/ advance
    \/ GpuExecute
    \/ PePresent
    \/ PePresentUndefined
    \/ waitIdle
    \/ cleanup
    \/ ScopeExit

Spec == Init /\ [][Next]_vars

\* createSwapChain's negotiation on its own, for every surface report
NegotiationNext ==
    \/ querySwapChainSupport
    \/ fillCreateInfo

NegotiationSpec == Init /\ [][NegotiationNext]_vars

\* The program with the graphics queue running the commands of queued
\* submissions concurrently: a submission begins, later it completes, and the
\* next one may begin in between.
OverlapNext ==
    \/ WindowCtor
    \/ InitPlain
    \/ createSwapChain
    \/ createImageViews
    \/ initSyncObjects
    \/ loadImages
    \/ immediateSubmit
    \/ GpuExecuteImmediate
    \/ loadMeshes
    \/ InitThrows
    \/ LoopClose
    \/ LoopIterate
    \/ waitForFences
    \/ resetFences
    \/ acquireNextImageKHR
    \/ record
    \/ submit
    \/ presentKHR
    \/ advance
    \/ GpuStart
    \/ GpuFinish
    \/ PePresent
    \/ PePresentUndefined
    \/ waitIdle
    \/ cleanup
    \/ ScopeExit

OverlapSpec == Init /\ [][OverlapNext]_vars

\* pickPhysicalDevice on its own, for every list of devices
DeviceNext ==
    \/ enumeratePhysicalDevices
    \/ pickPhysicalDevice

DeviceSpec == Init /\ [][DeviceNext]_vars

\* ------------------------------------------------------------------ claims
\* slot s has a submission the GPU has not finished
SlotPending(s) == \E j \in DOMAIN pendingSubs : pendingSubs[j].slot = s

\* C1: the command buffer of a frame slot is never reset or re-recorded while
\* a submission of that slot is unfinished (its completion fence unsignaled):
\* as long as a submission of slot s is queued, the slot's command buffer is
\* still the pending one that was submitted.
C1_NoResetWhilePending ==
    \A s \in DOMAIN commandBuffers :
        SlotPending(s) => commandBuffers[s].state = "pending"

\* present request p is covered by a rendering into its image that signals
\* the semaphore p waits on, queued or completed
RenderCovers(p) ==
    \/ \E j \in DOMAIN pendingSubs :
          pendingSubs[j].image = p.image /\ pendingSubs[j].signal = p.wait
    \/ rendered[p.image] /\ renderFinishedSemaphores[p.wait] = "signaled"

\* C2: every image handed to the presentation queue is the image acquired by
\* that drawFrame call, and its present request waits on the render-finished
\* semaphore signaled by the submission that renders into that image, so no
\* image is presented before its rendering completed.
C2_PresentAfterRender ==
    \A j \in DOMAIN presentQueue :
        /\ swapChainImages[presentQueue[j].image] = "queued"
        /\ presentQueue[j].wait = presentQueue[j].image
        /\ RenderCovers(presentQueue[j])

\* initSyncObjects has returned
SyncObjectsInitialised == DOMAIN inFlightFences # {}

\* number of log entries equal to create of an object of the kind
CreatedCount(kind) ==
    Cardinality({i \in DOMAIN log : log[i][1] = "create" /\ log[i][2][1] = kind})

\* C3: once initSyncObjects has returned, and in every state drawFrame reaches
\* afterwards, there are exactly as many render-finished semaphores as the
\* swapchain returned images, whatever MAX_FRAMES_IN_FLIGHT is.
C3_SemaphorePerImage ==
    SyncObjectsInitialised =>
        /\ Size(renderFinishedSemaphores) = Size(swapChainImages)
        /\ CreatedCount("renderFinishedSemaphore") = Size(swapChainImages)

\* drawFrame has run on a swapchain whose image count differs from
\* MAX_FRAMES_IN_FLIGHT
C3_Witness ==
    /\ SyncObjectsInitialised
    /\ Size(swapChainImages) # MAX_FRAMES_IN_FLIGHT
    /\ Size(renderFinishedSemaphores) = Size(swapChainImages)
    /\ framesDone >= MAX_FRAMES_IN_FLIGHT

DrawFrameSteps == {DrawFrameOrder[i] : i \in DOMAIN DrawFrameOrder}

IsPrefix(a, b) == Len(a) <= Len(b) /\ a = SubSeq(b, 1, Len(a))

\* C4: a drawFrame call performs wait, reset fence, acquire, record, submit,
\* present, advance in this order: at every statement exactly the earlier ones
\* have run, the command buffer is recorded for the image just acquired, a
\* call that returns has run all seven and a call that throws ran a prefix.
C4_StepOrder ==
    /\ IsPrefix(stepLog, DrawFrameOrder)
    /\ pc \in DrawFrameSteps =>
          stepLog = SubSeq(DrawFrameOrder, 1, StepIndex(pc) - 1)
    /\ pc \in {"record", "submit", "presentKHR"} =>
          /\ imageIndex \in DOMAIN swapChainImages
          /\ swapChainImages[imageIndex] = "acquired"
    /\ pc = "submit" =>
          /\ commandBuffers[currentFrame].state = "executable"
          /\ commandBuffers[currentFrame].image = imageIndex
    /\ (pc \in {"loop", "waitIdle", "cleanup", "scopeExit"} /\ framesDone > 0) =>
          stepLog \in {<<>>, DrawFrameOrder}
    /\ (pc = "loop" /\ stepLog = DrawFrameOrder) => framesDone > 0

\* a drawFrame call on a reused slot has returned
C4_Witness ==
    /\ pc = "loop"
    /\ stepLog = DrawFrameOrder
    /\ framesDone > MAX_FRAMES_IN_FLIGHT

\* C5: currentFrame_ starts at 0, stays in 0 .. MAX_FRAMES_IN_FLIGHT-1, is
\* changed only by the last statement of drawFrame, to (currentFrame_ + 1) mod
\* MAX_FRAMES_IN_FLIGHT, and the n-th call (from 0) runs on slot n mod
\* MAX_FRAMES_IN_FLIGHT.
C5_SlotIndex ==
    /\ [](/\ currentFrame \in Slots
          /\ currentFrame = framesDone % MAX_FRAMES_IN_FLIGHT)
    /\ [][currentFrame' # currentFrame =>
            /\ pc = "advance"
            /\ currentFrame' = (currentFrame + 1) % MAX_FRAMES_IN_FLIGHT]_vars

\* a drawFrame call is running on slot 0 after the index wrapped around
C5_Witness ==
    /\ framesDone >= MAX_FRAMES_IN_FLIGHT
    /\ currentFrame = 0
    /\ pc = "waitForFences"

\* C6: a stale-surface result of acquisition or presentation does not abort
\* the render loop (the swapchain is rebuilt and the frame retried), and a
\* resize flag set before a frame has been cleared by the time drawFrame
\* returns.
C6_StaleSurfaceRecreates ==
    /\ lastError.result \in StaleResults => pc # "exited"
    /\ pc = "advance" => ~frameBufferResized

\* C7: after any failing GPU call in drawFrame other than a stale surface, no
\* later step of the frame and no later drawFrame runs: the error has ended
\* the render loop.
C7_FailureAborts ==
    (lastError # NoError /\ lastError.result \notin StaleResults) => pc = "exited"

\* index of the group holding the kind, 0 when no group holds it
Rank(groups, kind) ==
    IF \E g \in DOMAIN groups : kind \in groups[g]
    THEN CHOOSE g \in DOMAIN groups : kind \in groups[g]
    ELSE 0

\* log entry i is the device-idle wait or destroys an object of some group
Ranked(groups, i) ==
    \/ log[i] = WaitIdleEv
    \/ log[i][1] = "destroy" /\ Rank(groups, log[i][2][1]) > 0

RankAt(groups, i) ==
    IF log[i] = WaitIdleEv THEN 0 ELSE Rank(groups, log[i][2][1])

\* no object of a later group is destroyed before an object of an earlier
\* group, and the device-idle wait precedes every destroy
Ordered(groups) ==
    \A j \in DOMAIN log :
        Ranked(groups, j) =>
            /\ \A i \in 1 .. (j - 1) :
                  Ranked(groups, i) => RankAt(groups, i) <= RankAt(groups, j)
            /\ log[j] # WaitIdleEv =>
                  \E w \in 1 .. (j - 1) : log[w] = WaitIdleEv

SyncKinds == {"renderFinishedSemaphore", "imageAvailableSemaphore", "inFlightFence"}

ImageKinds == {"depthImage", "depthImageView", "textureImage", "textureImageView"}

MeshBufferKinds == {"vertexBuffer", "indexBuffer"}

\* the shutdown order as stated: ... images and buffers, allocator, swapchain,
\* device, surface, instance
StatedGroups ==
    << SyncKinds, {"graphicsPipeline", "pipelineLayout"},
       {"descriptorPool", "descriptorSetLayout"},
       ImageKinds \cup MeshBufferKinds, {"allocator"}, {"swapchain"},
       {"device"}, {"surface"}, {"instance"} >>

\* the same order with the swapchain between the images and the mesh buffers
AmendedGroups ==
    << SyncKinds, {"graphicsPipeline", "pipelineLayout"},
       {"descriptorPool", "descriptorSetLayout"},
       ImageKinds, {"swapchain"}, MeshBufferKinds, {"allocator"},
       {"device"}, {"surface"}, {"instance"} >>

\* C8 as stated: cleanup waits for device idle, then destroys sync primitives,
\* pipeline and layout, descriptor pool and layout, images and buffers, the
\* allocator, the swapchain, the device, the surface, the instance, no object
\* of a later group before every object of an earlier group.
C8_StatedShutdownOrder == Ordered(StatedGroups)

\* C8 amended: cleanup waits for device idle, then destroys sync primitives,
\* pipeline and layout, descriptor pool and layout, the depth and texture
\* images, the swapchain, the mesh vertex and index buffers, the allocator,
\* the device, the surface, the instance, no object of a later group before
\* every object of an earlier group: this holds before the first call and
\* after every call that the log records.
C8_ShutdownOrder ==
    Ordered(AmendedGroups) /\ [][log' # log => Ordered(AmendedGroups)']_vars

\* cleanup has destroyed everything, mesh buffers included
C8_Witness ==
    /\ pc = "scopeExit"
    /\ meshes >= 1
    /\ \E i \in DOMAIN log : log[i] = Destroy(Obj("instance"))
    /\ \E i \in DOMAIN log : log[i] = Destroy(<<"vertexBuffer", 0>>)

\* kinds of objects allocated through the allocator
AllocationKinds ==
    {"depthImage", "textureImage", "stagingBuffer", "vertexBuffer", "indexBuffer"}

\* the log keeps the allocator within the device's life and every allocation
\* within the allocator's
AllocatorLifetime ==
    \A i \in DOMAIN log :
        /\ (log[i][1] \in {"create", "destroy"} /\ log[i][2] = Obj("allocator")) =>
              AliveBefore(Obj("device"), i)
        /\ (log[i][1] \in {"create", "destroy"} /\ log[i][2][1] \in AllocationKinds) =>
              AliveBefore(Obj("allocator"), i)
        /\ log[i] = Destroy(Obj("allocator")) =>
              \A c \in 1 .. (i - 1) :
                  (log[c][1] = "create" /\ log[c][2][1] \in AllocationKinds) =>
                      ~AliveBefore(log[c][2], i)

\* C9: the allocator is created and destroyed while the device exists, every
\* buffer and image allocated through it is created and destroyed while the
\* allocator exists, and none of them is left when the allocator is destroyed:
\* this holds before the first call and after every call that the log records.
C9_AllocatorLifetime ==
    AllocatorLifetime /\ [][log' # log => AllocatorLifetime']_vars

\* the allocator has been destroyed after depth image, texture image, staging
\* buffer and mesh buffers were allocated through it
C9_Witness ==
    /\ \E i \in DOMAIN log : log[i] = Destroy(Obj("allocator"))
    /\ \A k \in AllocationKinds : CreatedCount(k) >= 1

\* objects init destroys itself, before the render loop
InitTemporaries ==
    {"stagingBuffer", "immediateCmd", "vertShaderModule", "fragShaderModule"}

\* log entry i is a destroy call of cleanup
CleanupDestroy(i) ==
    log[i][1] = "destroy" /\ log[i][2][1] \notin InitTemporaries

\* C10: cleanup destroys nothing while a queue submission or a present is
\* unfinished: whenever cleanup has destroyed objects the device is idle, and
\* a device-idle wait precedes the first destroy.
C10_IdleBeforeDestroy ==
    \A i \in DOMAIN log :
        CleanupDestroy(i) =>
            /\ pendingSubs = <<>>
            /\ presentQueue = <<>>
            /\ \E w \in 1 .. (i - 1) : log[w] = WaitIdleEv

\* cleanup has run after frames were drawn on every slot
C10_Witness ==
    /\ \E i \in DOMAIN log : CleanupDestroy(i)
    /\ framesDone >= MAX_FRAMES_IN_FLIGHT

\* the calls of the transient command buffer's life, in the order
\* immediateSubmit makes them and the queue completes the submission
ImmediateSubmitVerbs ==
    << "create", "begin" >> \o [i \in DOMAIN UploadCommands |-> "cmd"]
    \o << "end", "submit", "complete", "waitIdle", "destroy" >>

\* C11: immediateSubmit allocates the command buffer, begins it, runs the
\* recording function, ends it, submits it, waits for the graphics queue to be
\* idle and only then frees it: the buffer is never freed while the queue has
\* still to execute it, and when immediateSubmit has returned the submitted
\* work has completed.
C11_ImmediateSubmitSynchronous ==
    /\ immediate.state = "freed" => immediate.cmds = <<>>
    /\ (pc \in InitFns \cup {"loop"} /\ immediate.state # "none") =>
          immediate = [state |-> "freed", cmds |-> <<>>]
    /\ \A i \in DOMAIN log :
          log[i] = Destroy(Obj("immediateCmd")) =>
              /\ i >= Len(ImmediateSubmitVerbs)
              /\ [j \in DOMAIN ImmediateSubmitVerbs |->
                     log[i - Len(ImmediateSubmitVerbs) + j][1]] = ImmediateSubmitVerbs
              /\ log[i - 1] = <<"waitIdle", Obj("graphicsQueue")>>
              /\ log[i - 2] = <<"complete", Obj("immediateCmd")>>

\* immediateSubmit has returned to loadImages and loadImages to initVulkan
C11_Witness ==
    /\ pc = "createTextureSampler"
    /\ immediate.state = "freed"
    /\ textureLayout = "shaderRead"

\* C12: immediateSubmit runs only during init: while its submission is
\* unfinished no frame has been drawn and no frame submission or present is
\* queued, and from the first drawFrame on no upload submission is pending.
C12_NoUploadDuringFrames ==
    /\ (immediate.cmds # <<>> \/ pc = "immediateSubmit") =>
          /\ framesDone = 0
          /\ stepLog = <<>>
          /\ pendingSubs = <<>>
          /\ presentQueue = <<>>
    /\ (pc \in DrawFrameSteps \cup {"loop"} \/ framesDone > 0) =>
          /\ immediate.cmds = <<>>
          /\ immediate.state = "freed"

\* the first drawFrame call has started, after the upload
C12_Witness ==
    /\ pc = "waitForFences"
    /\ framesDone = 0
    /\ immediate = [state |-> "freed", cmds |-> <<>>]

\* the calls of init that can fail
InitCalls == InitFns \cup {"immediateSubmit"}

\* C13: a failure of any init call ends main with exit status 1: the render
\* loop is never entered, no drawFrame statement runs and nothing is submitted
\* for a frame.
C13_InitFailureExits ==
    lastError.call \in InitCalls =>
        /\ pc = "exited"
        /\ exitCode = 1
        /\ framesDone = 0
        /\ stepLog = <<>>
        /\ pendingSubs = <<>>
        /\ presentQueue = <<>>

\* createGraphicsPipeline threw (a shader file is missing) and main returned
C13_Witness ==
    /\ lastError.call = "createGraphicsPipeline"
    /\ pc = "exited"
    /\ exitCode = 1

\* the format and color space createInfo carries, as a surface format
ChosenFormat ==
    [format |-> createInfo.imageFormat, colorSpace |-> createInfo.imageColorSpace]

\* C14: for every non-empty list of supported formats the chosen format is the
\* B8G8R8A8 sRGB / sRGB non-linear entry if the list holds one, at whatever
\* position, and the first entry of the list otherwise.
C14_SurfaceFormatChoice ==
    createInfo.filled =>
        LET formats == swapChainSupport.formats
        IN IF \E i \in DOMAIN formats : formats[i] = PreferredFormat
           THEN ChosenFormat = PreferredFormat
           ELSE ChosenFormat = formats[1]

\* the preferred entry was chosen from the last position of a list that
\* starts with another entry of the same format in another color space
C14_Witness ==
    /\ createInfo.filled
    /\ Len(swapChainSupport.formats) >= 2
    /\ swapChainSupport.formats[1].format = "B8G8R8A8_SRGB"
    /\ swapChainSupport.formats[1] # PreferredFormat
    /\ swapChainSupport.formats[Len(swapChainSupport.formats)] = PreferredFormat
    /\ ChosenFormat = PreferredFormat

\* C15: for every list of supported present modes, empty or without FIFO
\* included, the chosen mode is MAILBOX if the list holds MAILBOX and FIFO
\* otherwise.
C15_PresentModeChoice ==
    createInfo.filled =>
        LET modes == swapChainSupport.presentModes
            listed == {modes[i] : i \in DOMAIN modes}
        IN createInfo.presentMode = IF "MAILBOX" \in listed THEN "MAILBOX" ELSE "FIFO"

\* FIFO was chosen from a non-empty list that holds neither FIFO nor MAILBOX
C15_Witness ==
    /\ createInfo.filled
    /\ swapChainSupport.presentModes # <<>>
    /\ \A i \in DOMAIN swapChainSupport.presentModes :
          swapChainSupport.presentModes[i] = "IMMEDIATE"
    /\ createInfo.presentMode = "FIFO"

\* v brought into lo .. hi
Within(v, lo, hi) == IF v < lo THEN lo ELSE IF v > hi THEN hi ELSE v

\* C16: when the current extent is the sentinel the chosen extent is the
\* framebuffer size of the window with width and height each brought into
\* the reported limits; in every other case it is the current extent itself.
C16_ExtentChoice ==
    createInfo.filled =>
        LET caps == swapChainSupport.capabilities
        IN IF caps.currentExtent = [width |-> UINT32_MAX, height |-> UINT32_MAX]
           THEN /\ createInfo.imageExtent.width =
                      Within(frameBufferSize.width, caps.minImageExtent.width,
                             caps.maxImageExtent.width)
                /\ createInfo.imageExtent.height =
                      Within(frameBufferSize.height, caps.minImageExtent.height,
                             caps.maxImageExtent.height)
           ELSE createInfo.imageExtent = caps.currentExtent

\* the width was raised to the minimum and the height lowered to the maximum
C16_Witness ==
    /\ createInfo.filled
    /\ swapChainSupport.capabilities.currentExtent.width = UINT32_MAX
    /\ frameBufferSize.width < swapChainSupport.capabilities.minImageExtent.width
    /\ frameBufferSize.height > swapChainSupport.capabilities.maxImageExtent.height
    /\ createInfo.imageExtent = [width |-> 1, height |-> 2]

\* C17: the image count requested is minImageCount + 1, replaced by
\* maxImageCount exactly when maxImageCount > 0 and minImageCount + 1 exceeds
\* it: (2, 3) and (2, 0) both give 3, and with (2, 0), one non-preferred
\* format and a FIFO-only list the request is 3 images, that format, FIFO.
C17_ImageCountChoice ==
    createInfo.filled =>
        LET caps == swapChainSupport.capabilities
            requested == caps.minImageCount + 1
        IN /\ (caps.maxImageCount > 0 /\ requested > caps.maxImageCount) =>
                 createInfo.minImageCount = caps.maxImageCount
           /\ ~(caps.maxImageCount > 0 /\ requested > caps.maxImageCount) =>
                 createInfo.minImageCount = requested
           /\ (caps.minImageCount = 2 /\ caps.maxImageCount \in {0, 3}) =>
                 createInfo.minImageCount = 3
           /\ ( /\ caps.minImageCount = 2
                /\ caps.maxImageCount = 0
                /\ Len(swapChainSupport.formats) = 1
                /\ swapChainSupport.formats[1] # PreferredFormat
                /\ swapChainSupport.presentModes = <<"FIFO">> ) =>
                 /\ createInfo.minImageCount = 3
                 /\ ChosenFormat = swapChainSupport.formats[1]
                 /\ createInfo.presentMode = "FIFO"

\* the request for min = 2, max = 0, one non-preferred format, FIFO only
C17_Witness ==
    /\ createInfo.filled
    /\ swapChainSupport.capabilities.minImageCount = 2
    /\ swapChainSupport.capabilities.maxImageCount = 0
    /\ swapChainSupport.formats =
          << [format |-> "R8G8B8A8_UNORM", colorSpace |-> "SRGB_NONLINEAR"] >>
    /\ swapChainSupport.presentModes = <<"FIFO">>
    /\ createInfo.minImageCount = 3
    /\ createInfo.imageFormat = "R8G8B8A8_UNORM"
    /\ createInfo.presentMode = "FIFO"

\* C18 as stated: inside drawFrame the host can block only in the fence
\* wait: at every later statement, image acquisition included, the call can
\* return without waiting for the GPU or the presentation engine.
C18_OnlyFenceWaitBlocks ==
    pc \in DrawFrameSteps \ {"waitForFences"} => HostReady(pc)

\* C18 amended: inside drawFrame the host can block in the fence wait and in
\* image acquisition (both called with an unbounded timeout); command
\* recording, queue submission, presentation and the slot advance never wait.
C18_OnlyWaitAndAcquireBlock ==
    /\ pc \in DrawFrameSteps \ {"waitForFences", "acquireNextImageKHR"} =>
          HostReady(pc)
    /\ pc = "record" => ENABLED record
    /\ pc = "submit" => ENABLED submit
    /\ pc = "presentKHR" => ENABLED presentKHR
    /\ pc = "advance" => ENABLED advance

\* the host is about to submit while the graphics queue and the presentation
\* engine both still have work queued
C18_Witness ==
    /\ pc = "submit"
    /\ pendingSubs # <<>>
    /\ presentQueue # <<>>
    /\ HostReady(pc)

\* C19: a statement of drawFrame leaves the command buffer, fence and
\* image-available semaphore of every other slot as they are, queues work
\* only for the current slot and the render-finished semaphore of the
\* acquired image, and changes neither the meshes, the pipeline, layouts and
\* descriptor set, the texture, nor the swapchain and its image views.
C19_FrameEffects ==
    [][ (pc \in DrawFrameSteps /\ stepLog' # stepLog) =>
          /\ \A s \in Slots \ {currentFrame} :
                /\ commandBuffers'[s] = commandBuffers[s]
                /\ inFlightFences'[s] = inFlightFences[s]
                /\ imageAvailableSemaphores'[s] = imageAvailableSemaphores[s]
          /\ renderFinishedSemaphores' = renderFinishedSemaphores
          /\ pendingSubs' # pendingSubs =>
                /\ Len(pendingSubs') = Len(pendingSubs) + 1
                /\ SubSeq(pendingSubs', 1, Len(pendingSubs)) = pendingSubs
                /\ pendingSubs'[Len(pendingSubs')].slot = currentFrame
                /\ pendingSubs'[Len(pendingSubs')].signal = imageIndex
          /\ presentQueue' # presentQueue =>
                /\ Len(presentQueue') = Len(presentQueue) + 1
                /\ SubSeq(presentQueue', 1, Len(presentQueue)) = presentQueue
                /\ presentQueue'[Len(presentQueue')].wait = imageIndex
          /\ currentFrame' # currentFrame => pc = "advance"
          /\ DOMAIN swapChainImages' = DOMAIN swapChainImages
          /\ UNCHANGED <<meshes, swapChainImageViews, log, uploadVars>>
      ]_vars

\* the frame on slot 1 has been submitted while slot 0's is still pending
C19_Witness ==
    /\ pc = "advance"
    /\ currentFrame = 1
    /\ commandBuffers[0].state = "pending"
    /\ commandBuffers[1].state = "pending"

\* the staging buffer outlives the pending copy, and the log has the upload's
\* calls in order
TextureUploadOrder ==
    /\ immediate.cmds # <<>> => AliveBefore(Obj("stagingBuffer"), Len(log) + 1)
    /\ textureLayout # "invalid"
    /\ \A i \in DOMAIN log :
          /\ log[i] = <<"submit", Obj("immediateCmd")>> =>
                /\ \E m \in 1 .. (i - 1) : log[m] = <<"memcpy", Obj("stagingBuffer")>>
                /\ i > 4
                /\ SubSeq(log, i - 4, i - 2) =
                      << <<"cmd", Obj("barrierToTransfer")>>,
                         <<"cmd", Obj("copyBufferToImage")>>,
                         <<"cmd", Obj("barrierToShaderRead")>> >>
          /\ log[i] = Destroy(Obj("stagingBuffer")) =>
                \E c \in 1 .. (i - 1) :
                    /\ log[c] = <<"complete", Obj("immediateCmd")>>
                    /\ \E m \in 1 .. (c - 1) : log[m] = <<"submit", Obj("immediateCmd")>>
          /\ log[i] = <<"write", Obj("descriptorSet")>> => textureLayout = "shaderRead"

\* C20: loadImages copies the pixels into the staging buffer, immediateSubmit
\* records barrier to transfer-destination, buffer-to-image copy, barrier to
\* shader-read and the queue completes them, and only then the staging buffer
\* is destroyed: it exists as long as the copy is pending, and the texture is
\* in shader-read layout when the descriptor set is written. This holds
\* before the first call and after every step that changes the log, the
\* transient command buffer or the texture's layout.
C20_TextureUploadOrder ==
    /\ TextureUploadOrder
    /\ [][<<log, immediate, textureLayout>>' # <<log, immediate, textureLayout>>
             => TextureUploadOrder']_vars

\* the descriptor set has been written after the upload completed and the
\* staging buffer was destroyed
C20_Witness ==
    /\ pc = "createGraphicsPipeline"
    /\ textureLayout = "shaderRead"
    /\ \E i \in DOMAIN log : log[i] = <<"write", Obj("descriptorSet")>>
    /\ \E i \in DOMAIN log : log[i] = Destroy(Obj("stagingBuffer"))

\* C21: every mesh vertex and index buffer is a device-local destination that
\* is filled through the staging path: it is never written by the host
\* directly, and between its creation and the first frame an immediateSubmit
\* copies a staging buffer into it.
C21_MeshStagingPath ==
    \A i \in DOMAIN log :
        (log[i][1] = "create" /\ log[i][2][1] \in MeshBufferKinds) =>
            /\ MemoryUsage(log[i][2][1]) = "GPU_ONLY"
            /\ \A m \in DOMAIN log : log[m] # <<"memcpy", log[i][2]>>
            /\ pc = "loop" =>
                  \E c \in (i + 1) .. Len(log) :
                      log[c] = <<"submit", Obj("immediateCmd")>>

\* the fixed commands before the per-mesh commands, and the commands per mesh
PrologueLen == 5

PerMesh == 4

\* position of the first command recorded for mesh k (from 0)
MeshAt(k) == PrologueLen + PerMesh * k + 1

DiscretePositions ==
    {i \in DOMAIN devices.list : devices.list[i] = "DiscreteGpu"}

\* pickPhysicalDevice has returned or thrown
Picked == physicalDevice # 0 \/ lastError.call = "pickPhysicalDevice"

\* C23: for every non-empty device list the selected device is the first
\* discrete GPU in enumeration order if the list holds one and the first
\* device of the list otherwise; for an empty list pickPhysicalDevice fails
\* with an error and selects nothing.
C23_DeviceChoice ==
    (devices.enumerated /\ Picked) =>
        IF devices.list = <<>>
        THEN /\ physicalDevice = 0
             /\ lastError.call = "pickPhysicalDevice"
             /\ exitCode = 1
        ELSE /\ lastError = NoError
             /\ physicalDevice \in DOMAIN devices.list
             /\ IF DiscretePositions # {}
                THEN /\ physicalDevice \in DiscretePositions
                     /\ \A i \in DiscretePositions : physicalDevice <= i
                ELSE physicalDevice = 1

\* the second of two discrete GPUs was passed over for the first, which is
\* not the first device of the list
C23_Witness ==
    /\ devices.enumerated
    /\ Len(devices.list) = 3
    /\ devices.list[1] # "DiscreteGpu"
    /\ devices.list[2] = "DiscreteGpu"
    /\ devices.list[3] = "DiscreteGpu"
    /\ physicalDevice = 2

\* C24: whenever drawFrame waits on a slot's fence, the fence is signaled
\* already or a queued submission of that slot is going to signal it, so the
\* wait is never on a fence that nothing will signal.
C24_FenceWillSignal ==
    pc = "waitForFences" =>
        \/ inFlightFences[currentFrame] = "signaled"
        \/ SlotPending(currentFrame)

\* C25: no semaphore is signaled twice without a wait in between: when a
\* slot's image-available semaphore is passed to an acquire its previous
\* signal has been consumed by the slot's previous submission, and a queued
\* submission signals a render-finished semaphore that is unsignaled (the
\* previous present waiting on it has consumed it) and that no other queued
\* submission signals.
C25_BinarySemaphores ==
    /\ pc = "acquireNextImageKHR" =>
          /\ imageAvailableSemaphores[currentFrame] = "unsignaled"
          /\ ~SlotPending(currentFrame)
    /\ \A j \in DOMAIN pendingSubs :
          /\ renderFinishedSemaphores[pendingSubs[j].signal] = "unsignaled"
          /\ \A i \in DOMAIN pendingSubs :
                i # j => pendingSubs[i].signal # pendingSubs[j].signal

\* C26: the depth image shared by all frame slots is never in use by the GPU
\* work of two frames at once: the commands of a frame's submission begin
\* only after the previous frame's submission has finished.
C26_DepthExclusive == executing <= 1

\* objects created from the window, directly or through the surface
WindowChildren == {"surface", "swapchain", "device"}

\* C27: on every exit path, the exception path included, the native window
\* is destroyed only after cleanup has completed: once main has returned no
\* surface, swapchain or device is left and no GPU work is in flight.
C27_CleanupBeforeWindow ==
    (pc = "exited" /\ ~windowAlive) =>
        /\ pendingSubs = <<>>
        /\ presentQueue = <<>>
        /\ \A k \in WindowChildren : ~AliveBefore(Obj(k), Len(log) + 1)

\* C28: every array access of drawFrame is in bounds: while a call runs,
\* currentFrame_ indexes the fences, the image-available semaphores and the
\* command buffers (MAX_FRAMES_IN_FLIGHT each), and from the acquisition on
\* the image index indexes the swapchain images, their views and the
\* render-finished semaphores, which all have the swapchain's image count.
C28_InBounds ==
    /\ pc \in DrawFrameSteps =>
          /\ currentFrame \in DOMAIN inFlightFences
          /\ currentFrame \in DOMAIN imageAvailableSemaphores
          /\ currentFrame \in DOMAIN commandBuffers
          /\ Size(inFlightFences) = MAX_FRAMES_IN_FLIGHT
          /\ Size(imageAvailableSemaphores) = MAX_FRAMES_IN_FLIGHT
          /\ Size(commandBuffers) = MAX_FRAMES_IN_FLIGHT
    /\ pc \in {"record", "submit", "presentKHR"} =>
          /\ imageIndex \in DOMAIN swapChainImages
          /\ imageIndex \in DOMAIN swapChainImageViews
          /\ imageIndex \in DOMAIN renderFinishedSemaphores
          /\ RenderFinishedIndex \in DOMAIN renderFinishedSemaphores
          /\ Size(swapChainImageViews) = Size(swapChainImages)
          /\ Size(renderFinishedSemaphores) = Size(swapChainImages)

\* slot 1 records for the image with the index MAX_FRAMES_IN_FLIGHT
C28_Witness ==
    /\ pc = "record"
    /\ currentFrame = MAX_FRAMES_IN_FLIGHT - 1
    /\ imageIndex = MAX_FRAMES_IN_FLIGHT
    /\ imageIndex \in DOMAIN renderFinishedSemaphores

\* the handles the creation (allocation, write) of an object of the kind
\* passes to Vulkan or to the allocator; the swapchain stands for
\* swapChainExtent_ and swapChainImageFormat_, which createSwapChain sets, and
\* the depth image for depthFormat_, which createDepthResources sets
Uses(kind) ==
    CASE kind = "instance" -> {}
      [] kind = "surface" -> {"instance"}
      [] kind = "device" -> {"instance", "surface"}
      [] kind = "allocator" -> {"instance", "device"}
      [] kind = "swapchain" -> {"surface", "device"}
      [] kind = "swapChainImageView" -> {"device", "swapchain"}
      [] kind = "depthImage" -> {"allocator", "swapchain"}
      [] kind = "depthImageView" -> {"device", "depthImage"}
      [] kind = "commandPool" -> {"device", "surface"}
      [] kind \in {"imageAvailableSemaphore", "inFlightFence"} -> {"device"}
      [] kind = "renderFinishedSemaphore" -> {"device", "swapchain"}
      [] kind \in {"stagingBuffer", "textureImage"} -> {"allocator"}
      [] kind = "immediateCmd" -> {"device", "commandPool"}
      [] kind = "textureImageView" -> {"device", "textureImage"}
      [] kind = "textureSampler" -> {"device"}
      [] kind \in {"descriptorSetLayout", "descriptorPool"} -> {"device"}
      [] kind = "descriptorSet" ->
            {"descriptorPool", "descriptorSetLayout", "textureImageView",
             "textureSampler"}
      [] kind \in {"vertShaderModule", "fragShaderModule"} -> {"device"}
      [] kind = "pipelineLayout" -> {"device", "descriptorSetLayout"}
      [] kind = "graphicsPipeline" ->
            {"device", "pipelineLayout", "vertShaderModule",
             "fragShaderModule", "swapchain", "depthImage"}
      [] kind \in {"vertexBuffer", "indexBuffer"} -> {"allocator"}
      [] OTHER -> {}

\* init is running or has just returned
DuringInit ==
    pc \in InitCalls \cup {"loop"} /\ framesDone = 0 /\ stepLog = <<>>

\* C29: each init step uses only handles an earlier step created: the
\* surface exists at device selection and queue-family lookup, the device
\* when the allocator is created, allocator and swapchain when the depth
\* image is, the swapchain when the per-image semaphores are, the command
\* pool at immediateSubmit, texture image view and sampler when the
\* descriptor set is written, descriptor set layout, swapchain and depth
\* image when the pipeline is built; and so for every object init creates.
C29_InitDependencies ==
    DuringInit =>
        /\ pc \in {"pickPhysicalDevice", "createLogicalDevice"} =>
              AliveBefore(Obj("surface"), Len(log) + 1)
        /\ pc = "immediateSubmit" => AliveBefore(Obj("commandPool"), Len(log) + 1)
        /\ \A i \in DOMAIN log :
              log[i][1] \in {"create", "allocate", "write"} =>
                  \A k \in Uses(log[i][2][1]) : AliveBefore(Obj(k), i)

\* init has returned: the pipeline was built and the meshes were loaded
C29_Witness ==
    /\ pc = "loop"
    /\ framesDone = 0
    /\ CreatedCount("graphicsPipeline") = 1
    /\ CreatedCount("vertexBuffer") >= 1
    /\ \E i \in DOMAIN log : log[i] = <<"write", Obj("descriptorSet")>>

\* positions of the log entries equal to e
Positions(e) == {i \in DOMAIN log : log[i] = e}

\* kinds that are not created from the device
NotDeviceChildren == {"device", "surface", "instance"}

\* C30: after a successful init and any number of drawFrame calls, when
\* cleanup has returned every object init created has been destroyed exactly
\* once, after its creation, nothing was destroyed that was not created, and
\* every object created from the device was destroyed before the device.
C30_CleanupComplete ==
    pc = "scopeExit" =>
        \A i \in DOMAIN log :
            /\ log[i][1] = "create" =>
                  /\ Positions(log[i]) = {i}
                  /\ Cardinality(Positions(Destroy(log[i][2]))) = 1
                  /\ \A d \in Positions(Destroy(log[i][2])) :
                        /\ i < d
                        /\ log[i][2][1] \notin NotDeviceChildren =>
                              \E v \in (d + 1) .. Len(log) :
                                  log[v] = Destroy(Obj("device"))
            /\ log[i][1] = "destroy" =>
                  Cardinality(Positions(Create(log[i][2]))) = 1

\* cleanup has returned after frames on a swapchain of three images
C30_Witness ==
    /\ pc = "scopeExit"
    /\ framesDone >= MAX_FRAMES_IN_FLIGHT
    /\ Size(swapChainImages) > MAX_FRAMES_IN_FLIGHT
    /\ meshes >= 1
    /\ Positions(Destroy(Obj("instance"))) # {}

====
